---- MODULE Spec2Model ----
(***************************************************************************)
(* Model of create_ebi_search_index_data.py: the EbiSearchIndexData class  *)
(* (constructor, data_check, _find_data_errors, format_data,               *)
(* _populate_header_data, format_error_data, send_email_report) and main.  *)
(*                                                                         *)
(* Python values are modelled as follows.                                  *)
(*   str        a sequence of text chunks; '' is <<>>, + is \o             *)
(*   x or None  a cell: <<>> is None, <<x>> is the value x                 *)
(*   dict       a record; the EFO/PUBMED cross-reference dicts are objects *)
(*              on a heap (reference -> record) because the code appends   *)
(*              the same dict object it later mutates                      *)
(*   exception  pc = "aborted" with the exception's type in error          *)
(***************************************************************************)
EXTENDS Integers, Sequences, FiniteSets, TLC

VARIABLES
    pc,                    \* position of main()
    data,                  \* self.data (a cell: <<>> while the attribute is unset)
    total_studies,         \* self.total_studies (a cell, as data)
    studies_missing_data,  \* EbiSearchIndexData.studies_missing_data
    data_file_obj,         \* format_data's header dict (a cell)
    entries_list,          \* format_data's entries_list
    i,                     \* index of the next row of the for loop of format_data
    studies_json,          \* studies.json as written by this run (a cell)
    logs_txt,              \* logs.txt as written by this run (a cell)
    missingStudies_txt,    \* missingStudies.txt as written by this run (a cell)
    writes,                \* the files opened for writing, in order
    mail,                  \* the bodies handed to sendmail, in order
    stages,                \* the calls main() has made, in order
    error                  \* type of the uncaught exception, "" when none

vars == <<pc, data, total_studies, studies_missing_data, data_file_obj,
          entries_list, i, studies_json, logs_txt, missingStudies_txt,
          writes, mail, stages, error>>

----------------------------------------------------------------------------
\* Bounds of the model.

\* Largest number of rows the detail query returns.
MaxRows == 2

\* Largest number of rows the set-difference query returns.
MaxMissing == 2

\* Largest length of a mapped-trait string, in characters.
MaxEfoLen == 3

----------------------------------------------------------------------------
\* Python values.

None == <<>>

Some(x) == <<x>>

IsNone(c) == c = <<>>

Val(c) == c[1]

Str(lit) == <<lit>>

SeqsUpTo(S, n) == UNION {[1..k -> S] : k \in 0..n}

----------------------------------------------------------------------------
\* The rows of ALL_STUDY_DATA_SQL, in the order of its SELECT list.

Row(pmid, title, date, journal, study, accession, size, author, trait, efo) ==
    [pmid |-> pmid, title |-> title, date |-> date,
     journal_name |-> journal, study_Id |-> study,
     accession_Id |-> accession,
     initial_sample_size |-> size,
     author_fullname |-> author,
     reported_trait |-> trait,
     efo_short_form |-> efo]

\* str.split(', '): the separator is matched left to right, without overlap;
\* a string without it is returned whole (so ''.split(', ') is ['']).
RECURSIVE Split(_)
Split(s) ==
    LET hits == {k \in 1..(Len(s) - 1) : s[k] = "," /\ s[k + 1] = " "}
    IN  IF hits = {}
        THEN <<s>>
        ELSE LET k == CHOOSE h \in hits : \A g \in hits : h <= g
             IN  <<SubSeq(s, 1, k - 1)>> \o Split(SubSeq(s, k + 2, Len(s)))

\* ', '.join(list); the separator is the two characters split looks for.
RECURSIVE Join(_)
Join(list) ==
    IF list = <<>> THEN <<>>
    ELSE IF Len(list) = 1 THEN list[1]
    ELSE list[1] \o <<",", " ">> \o Join(Tail(list))

\* date.strftime('%Y/%m/%d') and date.strftime('%d-%m-%Y'): the month and the
\* day are zero-padded to two digits.
Pad2(n) == IF n < 10 THEN <<"0", ToString(n)>> ELSE <<ToString(n)>>

StrftimeYmd(d) == <<ToString(d.y)>> \o Str("/") \o Pad2(d.m) \o Str("/") \o Pad2(d.d)

StrftimeDmy(d) == Pad2(d.d) \o Str("-") \o Pad2(d.m) \o Str("-") \o <<ToString(d.y)>>

\* date.today()
Today == [y |-> 2020, m |-> 4, d |-> 22]

_get_timestamp == StrftimeDmy(Today)

url_published_field_prefix == Str("https://www.ebi.ac.uk/gwas/studies/")

\* A {'name': ..., 'value': ...} dict of the fields list.
Field(name, value) == [name |-> name, value |-> value]

\* A {'dbkey': ..., 'dbname': ...} dict.
Xref(dbkey, dbname) == [dbkey |-> dbkey, dbname |-> dbname]

----------------------------------------------------------------------------
\* format_data, one row.

\* The in-place variant of the reset below: the dict just appended is emptied
\* instead of a new one being bound to efo_xref.
ClearDictInPlace(heap, efo_xref) ==
    [heap |-> [heap EXCEPT ![efo_xref].dbkey = <<>>], efo_xref |-> efo_xref]

\* "Clear dict": efo_xref is bound to a new dict object.
ClearDict(heap, efo_xref) ==
    [heap |-> Append(heap, Xref(<<>>, "EFO")), efo_xref |-> Len(heap) + 1]

\* The loop over the tokens of the mapped-trait string, from token k on. st
\* holds the heap of dict objects, the reference bound to efo_xref and
\* cross_references_list (a list of references).
RECURSIVE EfoLoop(_, _, _)
EfoLoop(efo_short_form, k, st) ==
    IF k > Len(Split(efo_short_form))
    THEN st
    ELSE LET set == [st.heap EXCEPT ![st.efo_xref].dbkey = Split(efo_short_form)[k]]
             list == Append(st.cross_references_list, st.efo_xref)
             clr == ClearDict(set, st.efo_xref)
         IN  EfoLoop(efo_short_form, k + 1,
                     [heap |-> clr.heap, efo_xref |-> clr.efo_xref,
                      cross_references_list |-> list])

\* The PUBMED cross-reference: the dict is appended in the else branch only.
PmidXref(pmid, st) ==
    IF IsNone(pmid)
    THEN [st EXCEPT !.heap[1].dbkey = <<>>]
    ELSE [st EXCEPT !.heap[1].dbkey = Val(pmid),
                    !.cross_references_list = Append(@, 1)]

\* The results of one iteration of the for loop.
Continue(log) == [kind |-> "continue", log |-> log]

Raise(type, log) == [kind |-> "raise", log |-> log, error |-> type]

Emit(entry, log) == [kind |-> "entry", log |-> log, entry |-> entry]

\* The tail of the iteration, once the description is set: the remaining
\* required fields, the fields list and the cross-references.
FormatRowTail(r, description, log) ==
    LET acc == Val(r.accession_Id)
        Missing(what) == Append(log, Str("Accession: ") \o acc \o Str(what))
    IN
    IF IsNone(r.author_fullname)
    THEN Continue(Missing(" is missing the First Author name."))
    ELSE IF IsNone(r.title)
    THEN Continue(Missing(" is missing a publication title."))
    ELSE IF IsNone(r.journal_name)
    THEN Continue(Missing(" is missing a journal name."))
    ELSE IF IsNone(r.date)
    THEN Continue(Missing(" is missing a publication date."))
    ELSE
    LET fields_list ==
            << Field("id", acc),
               Field("reported_trait", Val(r.reported_trait)),
               Field("description", description),
               Field("first_author", Val(r.author_fullname)),
               Field("publication_title", Val(r.title)),
               Field("journal_name", Val(r.journal_name)),
               Field("publication_date", StrftimeYmd(Val(r.date))),
               Field("url", url_published_field_prefix \o acc) >>
        \* pmid_xref is object 1 and efo_xref object 2
        st0 == [heap |-> <<Xref(<<>>, "PUBMED"), Xref(<<>>, "EFO")>>,
                efo_xref |-> 2,
                cross_references_list |-> <<>>]
        st1 == PmidXref(r.pmid, st0)
    IN  \* efo_xref is a dict, never None: the split is always attempted, and
        \* None has no split
        IF IsNone(r.efo_short_form)
        THEN Raise("AttributeError", log)
        ELSE LET st2 == EfoLoop(Val(r.efo_short_form), 1, st1)
             IN  Emit([fields |-> fields_list,
                       cross_references |-> st2.cross_references_list,
                       heap |-> st2.heap], log)

\* One iteration of the for loop of format_data on row r, with
\* studies_missing_data = log. str + None raises TypeError.
FormatRow(r, log) ==
    IF IsNone(r.accession_Id)
    THEN IF IsNone(r.pmid)
         THEN Raise("TypeError", log)
         ELSE Continue(Append(log, Str("PMID: ") \o Val(r.pmid)
                  \o Str(" has a study missing an accession identifier.")))
    ELSE IF IsNone(r.reported_trait)
    THEN Continue(Append(log, Str("Accession: ") \o Val(r.accession_Id)
             \o Str(" is missing a reported trait annotation.")))
    ELSE IF IsNone(r.initial_sample_size)
    THEN LET warned == Append(log, Str("Accession: ") \o Val(r.accession_Id)
                           \o Str(" is missing inital sample size information."))
         IN  IF IsNone(r.author_fullname) \/ IsNone(r.pmid)
             THEN Raise("TypeError", warned)
             ELSE FormatRowTail(r, Str("Study published by ")
                                   \o Val(r.author_fullname)
                                   \o Str(", PMID: ") \o Val(r.pmid), warned)
    ELSE FormatRowTail(r, Str("Study of ") \o Val(r.initial_sample_size), log)

\* json.dump of an entry: every reference of cross_references is written as
\* the dict it points to.
DumpEntry(entry) ==
    [fields |-> entry.fields,
     cross_references |->
         [k \in 1..Len(entry.cross_references) |->
             entry.heap[entry.cross_references[k]]]]

\* _populate_header_data
_populate_header_data(rows) ==
    [entry_count |-> Len(rows), name |-> "GWAS Catalog",
     release |-> _get_timestamp, release_date |-> _get_timestamp,
     entries |-> <<>>]

\* format_error_data
format_error_data(log) ==
    LET RECURSIVE Lines(_)
        Lines(l) == IF l = <<>> THEN <<>>
                    ELSE IF Len(l) = 1 THEN Str("\t-- ") \o l[1]
                    ELSE Str("\t-- ") \o l[1] \o Str("\n") \o Lines(Tail(l))
    IN  Str("Report of publications or studies with missing curation information\n\n")
        \o Str("[Info] Date of run: ") \o _get_timestamp \o Str("\n")
        \o Str("[Info] Source database: ") \o Str("release_db") \o Str("\n\n")
        \o Str("[Info] Errors found with:\n")
        \o (IF Len(log) > 0 THEN Lines(log) ELSE Str("\nNo data issues found."))
        \o Str("\n\nThis report was created by the \"create_ebi_search_index_data.py\" script run by the \"Data Release(prod)\" Bamboo build plan.")

----------------------------------------------------------------------------
\* What the database can answer.

Characters == {"E", ",", " "}

\* The mapped-trait strings (listagg(ET.SHORT_FORM, ', ')), one chunk per
\* character.
EfoStrings == SeqsUpTo(Characters, MaxEfoLen)

PmidValues == {None, Some(Str("31415"))}

TitleValues == {None, Some(Str("A title"))}

DateValues == {None, Some([y |-> 2019, m |-> 12, d |-> 5])}

JournalValues == {None, Some(Str("Nature"))}

StudyIdValues == {Some(Str("7"))}

AccessionValues == {None, Some(Str("GCST1")), Some(Str("GCST2"))}

SampleSizeValues == {None, Some(Str("100 cases"))}

AuthorValues == {None, Some(Str("Smith J"))}

TraitValues == {None, Some(Str("Height"))}

\* Every row over the column values above and the given mapped-trait strings.
Rows(efos) ==
    {Row(p, t, d, j, s, a, n, f, r, e) :
        p \in PmidValues, t \in TitleValues, d \in DateValues,
        j \in JournalValues, s \in StudyIdValues, a \in AccessionValues,
        n \in SampleSizeValues, f \in AuthorValues, r \in TraitValues,
        e \in {None} \cup {Some(x) : x \in efos}}

Columns == {"pmid", "title", "date", "journal_name", "study_Id",
            "accession_Id", "initial_sample_size", "author_fullname",
            "reported_trait", "efo_short_form"}

Absent(r) == {c \in Columns : IsNone(r[c])}

\* The rows with at most one NULL column and a one-token mapped-trait string.
SingleNullRows == {r \in Rows({<<"E">>}) : Cardinality(Absent(r)) <= 1}

\* The answers of the two queries of the constructor: several rows with at
\* most one NULL each, and any total.
PipelineInputs ==
    {[rows |-> rs, total |-> n] :
        rs \in SeqsUpTo(SingleNullRows, MaxRows), n \in 0..MaxRows}

\* The answers of the two queries of the constructor: one row, any of its
\* columns NULL, any mapped-trait string, and the matching total.
RowInputs ==
    {[rows |-> <<r>>, total |-> 1] : r \in Rows(EfoStrings)}

\* The answers of MISSING_STUDIES_SQL: rows (PUBMED_ID, STUDY_ID, ACCESSION_ID).
MissingResults ==
    SeqsUpTo({<<Some(Str("31415")), Some(Str("7")), a>> :
                 a \in {None, Some(Str("GCST3"))}}, MaxMissing)

----------------------------------------------------------------------------
\* main and the methods it calls.

Init ==
    /\ pc = "main"
    /\ data = None
    /\ total_studies = None
    /\ studies_missing_data = <<>>
    /\ data_file_obj = None
    /\ entries_list = <<>>
    /\ i = 1
    /\ studies_json = None
    /\ logs_txt = None
    /\ missingStudies_txt = None
    /\ writes = <<>>
    /\ mail = <<>>
    /\ stages = <<>>
    /\ error = ""

\* main, up to the connection: the two os.path.isdir checks; sys.exit(1) when
\* one of them fails.
CheckDirs ==
    /\ pc = "main"
    /\ \E output_dir_ok \in BOOLEAN, logs_dir_ok \in BOOLEAN :
          pc' = IF output_dir_ok /\ logs_dir_ok THEN "init" ELSE "exit1"
    /\ UNCHANGED <<data, total_studies, studies_missing_data, data_file_obj,
                   entries_list, i, studies_json, logs_txt,
                   missingStudies_txt, writes, mail, stages, error>>

\* EbiSearchIndexData.__init__: the detail query, then the total query; a
\* cx_Oracle.DatabaseError of either is printed and leaves the attributes not
\* yet assigned unset.
Fetch(inputs) ==
    /\ pc = "init"
    /\ \E in \in inputs, outcome \in {"ok", "detail fails", "total fails"} :
          /\ data' = IF outcome = "detail fails" THEN data ELSE Some(in.rows)
          /\ total_studies' = IF outcome = "ok" THEN Some(in.total)
                              ELSE total_studies
    /\ pc' = "data_check"
    /\ stages' = Append(stages, "__init__")
    /\ UNCHANGED <<studies_missing_data, data_file_obj, entries_list, i,
                   studies_json, logs_txt, missingStudies_txt, writes, mail,
                   error>>

\* data_check, with _find_data_errors. Reading an unset attribute raises
\* AttributeError; '-- Accession: ' + None raises TypeError, after
\* missingStudies.txt was written; a DatabaseError of the third query is
\* printed.
DataCheck ==
    /\ pc = "data_check"
    /\ stages' = Append(stages, "data_check")
    /\ IF IsNone(total_studies) \/ IsNone(data)
       THEN /\ pc' = "aborted"
            /\ error' = "AttributeError"
            /\ UNCHANGED <<studies_missing_data, missingStudies_txt, writes>>
       ELSE IF Val(total_studies) = Len(Val(data))
       THEN /\ pc' = "format_data"
            /\ UNCHANGED <<studies_missing_data, missingStudies_txt, writes,
                           error>>
       ELSE \E third \in {[raises |-> FALSE, rows |-> m] : m \in MissingResults}
                             \cup {[raises |-> TRUE, rows |-> <<>>]} :
               IF third.raises
               THEN /\ pc' = "format_data"
                    /\ UNCHANGED <<studies_missing_data, missingStudies_txt,
                                   writes, error>>
               ELSE LET incorrect_studies == third.rows
                        accessions ==
                            [k \in 1..Len(incorrect_studies) |->
                                incorrect_studies[k][3]]
                    IN  /\ missingStudies_txt' = Some(incorrect_studies)
                        /\ writes' = Append(writes, "missingStudies.txt")
                        /\ IF \E k \in 1..Len(accessions) : IsNone(accessions[k])
                           THEN /\ pc' = "aborted"
                                /\ error' = "TypeError"
                                /\ UNCHANGED studies_missing_data
                           ELSE /\ pc' = "format_data"
                                /\ studies_missing_data' =
                                       studies_missing_data \o
                                       << Str("Number of studies do not match. Missing trait information for accessions: "),
                                          Join([k \in 1..Len(accessions) |->
                                                   Val(accessions[k])]) >>
                                /\ UNCHANGED error
    /\ UNCHANGED <<data, total_studies, data_file_obj, entries_list, i,
                   studies_json, logs_txt, mail>>

\* format_data, up to the for loop.
FormatBegin ==
    /\ pc = "format_data"
    /\ stages' = Append(stages, "format_data")
    /\ data_file_obj' = Some(_populate_header_data(Val(data)))
    /\ entries_list' = <<>>
    /\ i' = 1
    /\ pc' = "for"
    /\ UNCHANGED <<data, total_studies, studies_missing_data, studies_json,
                   logs_txt, missingStudies_txt, writes, mail, error>>

\* entries_list.insert(0, entry)
InsertEntry(list, entry) == <<entry>> \o list

\* entries_list.append(entry)
AppendEntry(list, entry) == Append(list, entry)

\* A handler around the loop that catches the exception of a row and carries
\* on to the log file.
RowRaisesCaught == "write_logs"

\* Where main is after a row of format_data raises: nothing catches it.
RowRaises == "aborted"

\* format_data, one iteration of the for loop.
FormatStep ==
    /\ pc = "for"
    /\ i <= Len(Val(data))
    /\ LET res == FormatRow(Val(data)[i], studies_missing_data)
       IN  /\ studies_missing_data' = res.log
           /\ entries_list' = IF res.kind = "entry"
                              THEN AppendEntry(entries_list, res.entry)
                              ELSE entries_list
           /\ i' = IF res.kind = "raise" THEN i ELSE i + 1
           /\ pc' = IF res.kind = "raise" THEN RowRaises ELSE pc
           /\ error' = IF res.kind = "raise" THEN res.error ELSE error
    /\ UNCHANGED <<data, total_studies, data_file_obj, studies_json, logs_txt,
                   missingStudies_txt, writes, mail, stages>>

\* format_data after the loop: the entries are attached and studies.json is
\* written.
WriteStudies ==
    /\ pc = "for"
    /\ i > Len(Val(data))
    /\ data_file_obj' = Some([Val(data_file_obj) EXCEPT !.entries = entries_list])
    /\ studies_json' =
           Some([Val(data_file_obj) EXCEPT
                    !.entries = [k \in 1..Len(entries_list) |->
                                    DumpEntry(entries_list[k])]])
    /\ writes' = Append(writes, "studies.json")
    /\ pc' = "write_logs"
    /\ UNCHANGED <<data, total_studies, studies_missing_data, entries_list, i,
                   logs_txt, missingStudies_txt, mail, stages, error>>

\* format_data, the end: logs.txt is written and studies_missing_data returned.
WriteLogs ==
    /\ pc = "write_logs"
    /\ logs_txt' = Some(studies_missing_data)
    /\ writes' = Append(writes, "logs.txt")
    /\ pc' = "report"
    /\ UNCHANGED <<data, total_studies, studies_missing_data, data_file_obj,
                   entries_list, i, studies_json, missingStudies_txt, mail,
                   stages, error>>

\* The body send_email_report hands to sendmail.
MailBody(email_addresses, studies_with_errors) ==
    Str("Subject: Data Release report - Published studies missing data annotations\nTo: ")
    \o email_addresses \o Str("\n") \o studies_with_errors

\* format_error_data and send_email_report; an OSError of Popen is printed.
EmailReport ==
    /\ pc = "report"
    /\ stages' = stages \o <<"format_error_data", "send_email_report">>
    /\ \E popen \in {"ok", "OSError"} :
          mail' = IF popen = "ok"
                  THEN Append(mail, MailBody(Str("email_recipient"),
                                  format_error_data(studies_missing_data)))
                  ELSE mail
    /\ pc' = "done"
    /\ UNCHANGED <<data, total_studies, studies_missing_data, data_file_obj,
                   entries_list, i, studies_json, logs_txt,
                   missingStudies_txt, writes, error>>

Next ==
    \/ CheckDirs
    \/ Fetch(PipelineInputs)
    \/ DataCheck
    \/ FormatBegin
    \/ FormatStep
    \/ WriteStudies
    \/ WriteLogs
    \/ EmailReport

\* A whole run on a database of several studies.
Spec == Init /\ [][Next]_vars

NextRow ==
    \/ CheckDirs
    \/ Fetch(RowInputs)
    \/ DataCheck
    \/ FormatBegin
    \/ FormatStep
    \/ WriteStudies
    \/ WriteLogs
    \/ EmailReport

\* A whole run on a database of one study, over every shape of its row.
SpecRow == Init /\ [][NextRow]_vars

----------------------------------------------------------------------------
\* Vocabulary of the properties.

\* The six fields format_data requires are present.
RequiredPresent(r) ==
    /\ ~IsNone(r.accession_Id) /\ ~IsNone(r.reported_trait)
    /\ ~IsNone(r.author_fullname) /\ ~IsNone(r.title)
    /\ ~IsNone(r.journal_name) /\ ~IsNone(r.date)

\* format_data was entered and its loop is over: every row was processed, or
\* one raised.
LoopOver ==
    /\ "format_data" \in {stages[k] : k \in 1..Len(stages)}
    /\ ~IsNone(data)
    /\ (i > Len(Val(data)) \/ pc = "aborted")

\* The run is over (after directory checks that passed).
RunOver == pc \in {"done", "aborted"}

\* The elements of a sequence that satisfy Test, in order.
Filter(seq, Test(_)) == SelectSeq(seq, Test)

IsDocumentFile(name) == name \in {"studies.json", "logs.txt"}

\* The value of the field called name of an entry.
FieldValue(entry, name) ==
    LET k == CHOOSE n \in 1..Len(entry.fields) : entry.fields[n].name = name
    IN  entry.fields[k].value

\* The references of an entry to dicts of the given dbname, in order.
RefsTo(entry, dbname) ==
    LET Is(ref) == entry.heap[ref].dbname = dbname
    IN  SelectSeq(entry.cross_references, Is)

\* The number of occurrences of ', ' in a string.
Separators(s) ==
    Cardinality({k \in 1..(Len(s) - 1) : s[k] = "," /\ s[k + 1] = " "})

----------------------------------------------------------------------------
\* C1: once format_data has written studies.json, the entry_count of its
\* header equals the number of entries in its entries list. (The code sets
\* entry_count to the number of input rows, so a skipped row breaks it.)
C1_EntryCountIsEntries ==
    ~IsNone(studies_json) =>
        Val(studies_json).entry_count = Len(Val(studies_json).entries)

\* C2: a row in which one of the six required fields is absent, whatever its
\* other columns, yields no entry and exactly one message in the missing-data
\* log, and format_data does not fail on it. (Checked on a database of one
\* row whose counts match, so the log holds the formatter's messages only.)
C2_MissingRequiredOneMessage ==
    (LoopOver /\ ~RequiredPresent(Val(data)[1])) =>
        /\ error = ""
        /\ entries_list = <<>>
        /\ Len(studies_missing_data) = 1

\* C3: a row with its six required fields present yields an entry; when its
\* initial_sample_size is absent the description is 'Study published by
\* <author>, PMID: <pmid>' and a warning is logged, and when it is present
\* the description is 'Study of <sample size>' and nothing is logged.
C3_DescriptionBySampleSize ==
    (LoopOver /\ RequiredPresent(Val(data)[1])) =>
        LET r == Val(data)[1]
        IN  /\ error = ""
            /\ Len(entries_list) = 1
            /\ IF IsNone(r.initial_sample_size)
               THEN /\ ~IsNone(r.pmid)
                    /\ FieldValue(entries_list[1], "description") =
                           Str("Study published by ") \o Val(r.author_fullname)
                           \o Str(", PMID: ") \o Val(r.pmid)
                    /\ Len(studies_missing_data) = 1
               ELSE /\ FieldValue(entries_list[1], "description") =
                           Str("Study of ") \o Val(r.initial_sample_size)
                    /\ studies_missing_data = <<>>

\* C4: every emitted entry has exactly one PUBMED cross-reference, keyed by
\* the row's PubMed ID, or by '' when the ID is absent; and a row without a
\* PubMed ID fares as the same row with one does: format_data fails on it or
\* emits an entry for it in the same cases.
C4_OnePubmedXref ==
    LoopOver =>
        LET r == Val(data)[1]
            with_pmid == FormatRow([r EXCEPT !.pmid = Some(Str("31415"))], <<>>)
        IN  /\ \A k \in 1..Len(entries_list) :
                  LET refs == RefsTo(entries_list[k], "PUBMED")
                  IN  /\ Len(refs) = 1
                      /\ entries_list[k].heap[refs[1]].dbkey =
                             (IF IsNone(r.pmid) THEN <<>> ELSE Val(r.pmid))
            /\ (with_pmid.kind = "raise") = (error # "")
            /\ (with_pmid.kind = "entry") = (entries_list # <<>>)

\* C5: in every emitted entry, the EFO cross-references are as many as the
\* tokens of the row's mapped-trait string split on ', ' (one more than the
\* occurrences of ', '), they are distinct dict objects, the i-th is keyed by
\* the i-th token, and the keys joined by ', ' give the string back; the
\* document written to studies.json shows the same keys.
C5_EfoXrefPerToken ==
    (LoopOver /\ entries_list # <<>>) =>
        LET e == entries_list[1]
            s == Val(Val(data)[1].efo_short_form)
            refs == RefsTo(e, "EFO")
            keys == [k \in 1..Len(refs) |-> e.heap[refs[k]].dbkey]
        IN  /\ Len(refs) = Separators(s) + 1
            /\ \A m, n \in 1..Len(refs) : m # n => refs[m] # refs[n]
            /\ keys = Split(s)
            /\ Join(keys) = s
            /\ ~IsNone(studies_json) =>
                   LET IsEfo(x) == x.dbname = "EFO"
                       written == SelectSeq(
                           Val(studies_json).entries[1].cross_references, IsEfo)
                   IN  written = [k \in 1..Len(keys) |-> Xref(keys[k], "EFO")]

\* An entry of several EFO cross-references was written to studies.json.
C5_Witness ==
    /\ ~IsNone(studies_json)
    /\ Val(studies_json).entries # <<>>
    /\ Len(RefsTo(entries_list[1], "EFO")) >= 2
    /\ \E k \in 1..Len(entries_list[1].cross_references) :
          entries_list[1].heap[entries_list[1].cross_references[k]].dbkey # <<>>

\* C6: when the detail query or the total query of the constructor fails,
\* the run is not aborted: it goes on through the consistency check, the
\* formatter, the file writes and the email.
C6_FetchFailureContinues ==
    (pc \notin {"main", "init", "exit1"}
        /\ (IsNone(data) \/ IsNone(total_studies))) =>
        /\ error = ""
        /\ (RunOver => /\ ~IsNone(studies_json) /\ ~IsNone(logs_txt)
                       /\ stages = <<"__init__", "data_check", "format_data",
                                     "format_error_data", "send_email_report">>)

\* C7: data_check never fails the run. When the counts differ and the
\* set-difference query returns rows (none, or some without accession ID
\* included), it returns having appended exactly the summary message and the
\* comma-joined accession list; when the counts are equal it appends nothing
\* and issues no third query.
C7_MismatchNeverFails ==
    (stages = <<"__init__", "data_check">>
        /\ ~IsNone(data) /\ ~IsNone(total_studies)) =>
        /\ error = ""
        /\ IF Val(total_studies) = Len(Val(data))
           THEN studies_missing_data = <<>> /\ IsNone(missingStudies_txt)
           ELSE ~IsNone(missingStudies_txt) =>
                    /\ Len(studies_missing_data) = 2
                    /\ studies_missing_data[1] =
                           Str("Number of studies do not match. Missing trait information for accessions: ")
                    /\ studies_missing_data[2] =
                           Join([k \in 1..Len(Val(missingStudies_txt)) |->
                                    Val(Val(missingStudies_txt)[k][3])])

\* C8: a run that passed the directory checks ends having made each call
\* once and in the order fetch, consistency check, format, file writes,
\* email report, the body of the email being built from the missing-data log
\* as the checker and the formatter left it.
C8_EveryStageOnceInOrder ==
    RunOver =>
        /\ stages = <<"__init__", "data_check", "format_data",
                      "format_error_data", "send_email_report">>
        /\ Filter(writes, IsDocumentFile) = <<"studies.json", "logs.txt">>
        /\ \A k \in 1..Len(mail) :
              mail[k] = MailBody(Str("email_recipient"),
                                 format_error_data(studies_missing_data))
        /\ Len(mail) <= 1

\* C9: entries_list is an order-preserving subsequence of the rows processed
\* so far: there is a strictly increasing map from the entries to rows that
\* have their six required fields, each entry's id field being the accession
\* ID of its row; studies.json holds the entries in the same order.
C9_EntriesInRowOrder ==
    (~IsNone(data) /\ pc \in {"for", "write_logs", "report", "done",
                              "aborted"}) =>
        /\ \E f \in [1..Len(entries_list) -> 1..Len(Val(data))] :
              /\ \A m, n \in 1..Len(entries_list) : m < n => f[m] < f[n]
              /\ \A m \in 1..Len(entries_list) :
                    /\ f[m] < i
                    /\ RequiredPresent(Val(data)[f[m]])
                    /\ FieldValue(entries_list[m], "id") =
                           Val(Val(data)[f[m]].accession_Id)
        /\ ~IsNone(studies_json) =>
              /\ Len(Val(studies_json).entries) = Len(entries_list)
              /\ \A m \in 1..Len(entries_list) :
                    Val(studies_json).entries[m] = DumpEntry(entries_list[m])

\* Two rows of different accession IDs both yielded entries, now written.
C9_Witness ==
    /\ ~IsNone(studies_json)
    /\ Len(Val(studies_json).entries) >= 2
    /\ FieldValue(entries_list[1], "id") # FieldValue(entries_list[2], "id")

\* C10: studies.json and logs.txt are written, and the email sent, only
\* after every row was processed without an exception: a run in which a row
\* failed leaves both files unwritten and sends no email, what is written is
\* the document of all the rows, and studies.json is written before logs.txt.
C10_FilesOnlyAfterAllRows ==
    /\ (~IsNone(studies_json) \/ ~IsNone(logs_txt) \/ mail # <<>>) =>
           /\ error = ""
           /\ ~IsNone(data)
           /\ i = Len(Val(data)) + 1
           /\ ~IsNone(studies_json)
           /\ Val(studies_json).entries =
                  [k \in 1..Len(entries_list) |-> DumpEntry(entries_list[k])]
    /\ error # "" =>
           /\ IsNone(studies_json) /\ IsNone(logs_txt) /\ mail = <<>>
    /\ Filter(writes, IsDocumentFile) \in
           {<<>>, <<"studies.json">>, <<"studies.json", "logs.txt">>}
    /\ mail # <<>> => ~IsNone(logs_txt)

\* The second row raised after the first had yielded an entry: a partial
\* entries list exists and nothing was written.
C10_Witness ==
    /\ pc = "aborted"
    /\ "format_data" \in {stages[k] : k \in 1..Len(stages)}
    /\ i = 2
    /\ entries_list # <<>>
    /\ IsNone(studies_json) /\ IsNone(logs_txt)

====
